---- MODULE Spec2Model ----
(***************************************************************************)
(* Model of sgqlc/types/__init__.py: the schema registry, the wrapper      *)
(* factory (non_null / list_of), the container type builder and the        *)
(* instance codec.                                                         *)
(*                                                                         *)
(* Python objects are rows of tables and are referred to by their index:   *)
(* classes in `types`, Field objects in `fieldObjs`, Schema objects in     *)
(* `schemas`, container instances in `insts`, the dict objects of decoded   *)
(* JSON in `dicts`.  An OrderedDict is a                                   *)
(* sequence of <<key, value>> pairs.  Every operation is a function from   *)
(* the world (the four tables) to a result [w, exc, ret]: the world it     *)
(* leaves, the exception it raises ("" when it returns) and its value.     *)
(***************************************************************************)
EXTENDS Integers, Sequences, FiniteSets, TLC

VARIABLES types, fieldObjs, schemas, insts, dicts, last, calls, count

vars == <<types, fieldObjs, schemas, insts, dicts, last, calls, count>>

World ==
    [types |-> types, fieldObjs |-> fieldObjs, schemas |-> schemas,
     insts |-> insts, dicts |-> dicts]

-----------------------------------------------------------------------------
(* Bounds of the model.                                                    *)

\* user classes (declarations and wrappers) created in one behaviour
MaxUserTypes == 2

\* Schema objects besides global_schema
MaxSchemas == 1

\* decode calls made in one behaviour
MaxDecodes == 1

\* attribute writes made in one behaviour
MaxWrites == 1

-----------------------------------------------------------------------------
(* OrderedDict / dict as a sequence of <<key, value>> pairs.               *)

Range(s) == {s[i] : i \in 1..Len(s)}

ODKeys(d) == [i \in 1..Len(d) |-> d[i][1]]

ODHas(d, k) == \E i \in 1..Len(d) : d[i][1] = k

ODGet(d, k) == d[CHOOSE i \in 1..Len(d) : d[i][1] = k][2]

\* d[k] = v: an existing key keeps its position, a new key goes last
ODSet(d, k, v) ==
    IF ODHas(d, k)
    THEN [i \in 1..Len(d) |-> IF d[i][1] = k THEN <<k, v>> ELSE d[i]]
    ELSE Append(d, <<k, v>>)

\* del d[k]
ODDel(d, k) == SelectSeq(d, LAMBDA e : e[1] # k)

\* d.update(e)
RECURSIVE ODUpdate(_, _)
ODUpdate(d, e) ==
    IF e = <<>> THEN d
    ELSE ODUpdate(ODSet(d, e[1][1], e[1][2]), Tail(e))

Result(w, exc, ret) == [w |-> w, exc |-> exc, ret |-> ret]

\* the element of a one-element set: { e(x) : x \in {v} } names the value v
\* once, where the code binds a local variable
The(S) == CHOOSE x \in S : TRUE

-----------------------------------------------------------------------------
(* Classes.  `kind`, `schema`, `conv` and `choices` are the class's own    *)
(* __kind__, __schema__, converter and __choices__ ("" / 0 / <<>> when the *)
(* class does not set them and the attribute is found along the MRO).      *)

MkType(name, bases, mro, kind, schema, meta, conv) ==
    [name |-> name, bases |-> bases, mro |-> mro, kind |-> kind,
     schema |-> schema, meta |-> meta, conv |-> conv,
     hasChoices |-> FALSE, choices |-> <<>>,
     fields |-> <<>>, interfaces |-> <<>>, ns |-> {},
     wrap |-> "", wbase |-> 0, autoreg |-> TRUE]

BaseType == 1
Scalar == 2
Enum == 3
Union == 4
ContainerType == 5
Type == 6
Interface == 7
Input == 8

\* the classes of the module that need no registration: BaseMeta.__init__
\* returns early for them
AbstractTypes ==
    << MkType("BaseType", <<>>, <<1>>, "None", 1, "base", ""),
       MkType("Scalar", <<1>>, <<2, 1>>, "scalar", 0, "base", "id"),
       [MkType("Enum", <<1>>, <<3, 1>>, "enum", 0, "enum", "")
            EXCEPT !.hasChoices = TRUE],
       MkType("Union", <<1>>, <<4, 1>>, "union", 0, "base", ""),
       MkType("ContainerType", <<1>>, <<5, 1>>, "", 0, "container", ""),
       MkType("Type", <<5>>, <<6, 5, 1>>, "type", 0, "container", ""),
       MkType("Interface", <<5>>, <<7, 5, 1>>, "interface", 0, "container", ""),
       MkType("Input", <<5>>, <<8, 5, 1>>, "input", 0, "container", "") >>

\* the value a class record holds for an attribute the class does not set
Unset(attr) ==
    CASE attr = "schema" -> 0
      [] attr = "hasChoices" -> FALSE
      [] OTHER -> ""

\* first class of the MRO that sets the attribute (0: none)
MroFind(w, mro, attr) ==
    LET hits == {i \in 1..Len(mro) : w.types[mro[i]][attr] # Unset(attr)}
    IN IF hits = {} THEN 0
       ELSE mro[CHOOSE i \in hits : \A j \in hits : i <= j]

\* cls.__kind__
KindOf(w, t) == w.types[MroFind(w, w.types[t].mro, "kind")].kind

\* cls.__schema__
SchemaOf(w, t) == w.types[MroFind(w, w.types[t].mro, "schema")].schema

\* cls.converter
ConverterOf(w, t) == w.types[MroFind(w, w.types[t].mro, "conv")].conv

\* cls.__choices__
ChoicesOf(w, t) == w.types[MroFind(w, w.types[t].mro, "hasChoices")].choices

\* issubclass(t, c)
IsSubclass(w, t, c) == c \in Range(w.types[t].mro)

-----------------------------------------------------------------------------
(* Schema                                                                  *)

\* Schema.__init__: base = 0 is base_schema=None, which falls back to
\* global_schema (schema 1) once it exists
Schema_init(w, base) ==
    LET b == IF base = 0 THEN (IF Len(w.schemas) >= 1 THEN 1 ELSE 0) ELSE base
        copyKinds(ks) == [i \in 1..Len(ks) |-> <<ks[i][1], ODUpdate(<<>>, ks[i][2])>>]
        s == IF b = 0
             THEN [all |-> <<>>, kinds |-> <<>>, cache |-> <<>>]
             ELSE [all |-> ODUpdate(<<>>, w.schemas[b].all),
                   kinds |-> copyKinds(w.schemas[b].kinds),
                   cache |-> <<>>]
    IN Result([w EXCEPT !.schemas = Append(@, s)], "", Len(w.schemas) + 1)

\* self.__kinds.setdefault(kind, ODict()).update({name: typ})
KindsAdd(ks, kind, name, t) ==
    LET cur == IF ODHas(ks, kind) THEN ODGet(ks, kind) ELSE <<>>
    IN ODSet(ks, kind, ODSet(cur, name, t))

\* Schema.__iadd__ as it would behave if Schema.__init__ shared the base's
\* per-kind dicts instead of copying them: the kind index of every schema
\* that already lists the kind sees the new entry
Schema_iadd_shared_kinds(w, s, t) ==
    LET name == w.types[t].name
        sch == w.schemas[s]
        had == ODHas(sch.all, name)
        cur == IF had THEN ODGet(sch.all, name) ELSE t
        kind == KindOf(w, t)
        w1 == [w EXCEPT !.schemas[s].all = IF had THEN @ ELSE Append(@, <<name, t>>)]
    IN IF cur # t
       THEN Result(w, "ValueError", 0)
       ELSE Result([w1 EXCEPT !.schemas =
                        [o \in 1..Len(@) |->
                            IF o = s \/ ODHas(@[o].kinds, kind)
                            THEN [@[o] EXCEPT !.kinds = KindsAdd(@, kind, name, t)]
                            ELSE @[o]]],
                   "", s)

\* Schema.__iadd__
Schema_iadd(w, s, t) ==
    LET name == w.types[t].name
        sch == w.schemas[s]
        had == ODHas(sch.all, name)
        cur == IF had THEN ODGet(sch.all, name) ELSE t
    IN IF cur # t
       THEN Result(w, "ValueError", 0)
       ELSE Result([w EXCEPT !.schemas[s] =
                        [sch EXCEPT !.all = IF had THEN @ ELSE Append(@, <<name, t>>),
                                    !.kinds = KindsAdd(@, KindOf(w, t), name, t)]],
                   "", s)

\* Schema.__isub__: two del statements, each raises KeyError on a missing key
Schema_isub(w, s, t) ==
    LET name == w.types[t].name
        kind == KindOf(w, t)
        sch == w.schemas[s]
        w1 == [w EXCEPT !.schemas[s].all = ODDel(@, name)]
    IN IF ~ODHas(sch.all, name)
       THEN Result(w, "KeyError", 0)
       ELSE IF ~ODHas(sch.kinds, kind) \/ ~ODHas(ODGet(sch.kinds, kind), name)
       THEN Result(w1, "KeyError", 0)
       ELSE Result([w1 EXCEPT !.schemas[s].kinds =
                        ODSet(@, kind, ODDel(ODGet(@, kind), name))],
                   "", s)

\* Schema.__contains__
Schema_contains(w, s, name) == ODHas(w.schemas[s].all, name)

\* Schema.__getitem__
Schema_getitem(w, s, name) == ODGet(w.schemas[s].all, name)

-----------------------------------------------------------------------------
(* BaseMeta                                                                *)

\* BaseMeta.__init__: registers the new class in its schema
BaseMeta_init(w, t) ==
    LET c == w.types[t]
    IN IF c.bases = <<>> \/ BaseType \in Range(c.bases)
          \/ ContainerType \in Range(c.bases)
       THEN Result(w, "", 0)
       ELSE IF c.autoreg
       THEN Schema_iadd(w, SchemaOf(w, t), t)
       ELSE Result(w, "", 0)

-----------------------------------------------------------------------------
(* Built-in scalars and the values a class body can bind a member to.      *)

IntType == 9
FloatType == 10
StringType == 11
BooleanType == 12
IDType == 13

NBuiltin == 13

\* map_python_to_graphql
map_python_to_graphql ==
    << <<"int", IntType>>, <<"float", FloatType>>, <<"str", StringType>>,
       <<"bool", BooleanType>>, <<"id", IDType>> >>

\* A member value: a class (m = "type", t), a Python identifier such as str
\* (m = "py", p), a Field object (m = "field", f), a Field(...) call of the
\* class body not yet executed (m = "Field", t/p the type, g the
\* graphql_name), or any other Python value (m = "other").
Member(m, t, p, f, g) == [m |-> m, t |-> t, p |-> p, f |-> f, g |-> g]

TypeMember(t) == Member("type", t, "", 0, "")
PyMember(p) == Member("py", 0, p, 0, "")
FieldMember(f) == Member("field", 0, "", f, "")
FieldCall(t, g) == Member("Field", t, "", 0, g)
OtherMember == Member("other", 0, "", 0, "")

\* BaseMeta.__ensure__ called on BaseType: a class is returned as it is, a
\* mapped identifier is translated, anything else raises TypeError
ensure(w, mem) ==
    IF mem.m \in {"type", "Field"} /\ mem.t # 0 /\ IsSubclass(w, mem.t, BaseType)
    THEN Result(w, "", mem.t)
    ELSE IF mem.m = "py" /\ ODHas(map_python_to_graphql, mem.p)
    THEN Result(w, "", ODGet(map_python_to_graphql, mem.p))
    ELSE Result(w, "TypeError", 0)

-----------------------------------------------------------------------------
(* BaseItem / Field                                                        *)

\* attribute names of the model, in the order sorted() gives them
AttrNames == << "a_b", "b", "child", "n", "x" >>

\* name.split('_')
SplitName(name) == IF name = "a_b" THEN << "a", "b" >> ELSE << name >>

\* str.title() of one part
Title(part) ==
    CASE part = "a" -> "A"
      [] part = "b" -> "B"
      [] part = "child" -> "Child"
      [] part = "n" -> "N"
      [] part = "x" -> "X"
      [] OTHER -> part

RECURSIVE JoinTitled(_)
JoinTitled(parts) ==
    IF parts = <<>> THEN "" ELSE Title(parts[1]) \o JoinTitled(Tail(parts))

\* BaseItem._to_graphql_name
to_graphql_name(name) ==
    LET parts == SplitName(name)
    IN parts[1] \o JoinTitled(Tail(parts))

\* BaseItem.__init__ (through Field.__init__): a new Field object
Field_init(w, typ, graphql_name) ==
    The({ IF r.exc # "" THEN r
          ELSE Result([w EXCEPT !.fieldObjs =
                          Append(@, [type |-> r.ret, graphql_name |-> graphql_name,
                                     name |-> "", schema |-> 0, container |-> 0])],
                      "", Len(w.fieldObjs) + 1)
          : r \in {ensure(w, typ)} })

\* BaseItem._set_container (through Field._set_container)
set_container(w, f, schema, container, name) ==
    [w EXCEPT !.fieldObjs[f] =
        [@ EXCEPT !.schema = schema, !.container = container, !.name = name,
                  !.graphql_name = IF @ = "" THEN to_graphql_name(name) ELSE @]]

\* BaseItem.type
FieldType(w, f) == w.fieldObjs[f].type

-----------------------------------------------------------------------------
(* ContainerTypeMeta                                                       *)

\* ContainerTypeMeta.__fix_type_kind
fix_type_kind(w, t) ==
    IF \E i \in 1..Len(w.types[t].bases) : KindOf(w, w.types[t].bases[i]) = "type"
    THEN [w EXCEPT !.types[t].kind = "type"]
    ELSE w

\* ifaces after the inner loop over b.__interfaces__
RECURSIVE AppendNew(_, _)
AppendNew(ifaces, more) ==
    IF more = <<>> THEN ifaces
    ELSE AppendNew(IF more[1] \in Range(ifaces) THEN ifaces
                   ELSE Append(ifaces, more[1]), Tail(more))

RECURSIVE InterfacesLoop(_, _, _)
InterfacesLoop(w, bases, ifaces) ==
    IF bases = <<>> THEN ifaces
    ELSE LET b == bases[1]
             withB == IF KindOf(w, b) = "interface" THEN Append(ifaces, b)
                      ELSE ifaces
         IN InterfacesLoop(w, Tail(bases),
                           AppendNew(withB, w.types[b].interfaces))

\* ContainerTypeMeta.__populate_interfaces
populate_interfaces(w, t) ==
    [w EXCEPT !.types[t].interfaces = InterfacesLoop(w, w.types[t].bases, <<>>)]

RECURSIVE InheritLoop(_, _, _)
InheritLoop(w, bases, fields) ==
    IF bases = <<>> THEN fields
    ELSE InheritLoop(w, Tail(bases), ODUpdate(fields, w.types[bases[1]].fields))

\* ContainerTypeMeta.__inherit_fields
inherit_fields(w, t) ==
    [w EXCEPT !.types[t].fields = InheritLoop(w, w.types[t].bases, @)]

\* names of the public attributes left in the namespace of class c
NsNames(c) == {e[1] : e \in c.ns}

\* ContainerTypeMeta.__dir__: sorted(original_dir + fields); the inherited
\* __dir__ lists each attribute of the class and of its bases once.  As
\* written the method calls super().__dir__(cls), one argument more than
\* type.__dir__ takes, and Python 3 raises TypeError there, so that no
\* class statement with a concrete container base completes.  Dir is the
\* list the method is written to return, i.e. the call without the extra
\* argument: everything the builder does after dir(cls) is stated on it.
Dir(w, t) ==
    LET c == w.types[t]
        attrs == UNION {NsNames(w.types[c.mro[i]]) : i \in 1..Len(c.mro)}
        one(n) == (IF n \in attrs THEN <<n>> ELSE <<>>)
                  \o (IF ODHas(c.fields, n) THEN <<n>> ELSE <<>>)
        cat[i \in 0..Len(AttrNames)] ==
            IF i = 0 THEN <<>> ELSE cat[i - 1] \o one(AttrNames[i])
    IN cat[Len(AttrNames)]

\* getattr(cls, name): the namespaces along the MRO, then
\* ContainerTypeMeta.__getattr__, which reads cls.__fields
GetAttr(w, t, name) ==
    The({ IF hits # {}
          THEN (CHOOSE e \in w.types[w.types[t].mro[CHOOSE i \in hits :
                                  \A j \in hits : i <= j]].ns : e[1] = name)[2]
          ELSE FieldMember(ODGet(w.types[t].fields, name))
          : hits \in {{i \in 1..Len(w.types[t].mro) :
                          name \in NsNames(w.types[w.types[t].mro[i]])}} })

\* field = getattr(cls, name), made a Field unless it is one; TypeError of
\* __ensure__ is the `continue` of the loop
OwnField(w, t, name) ==
    The({ IF mem.m = "field" THEN Result(w, "", mem.f)
          ELSE The({ IF e.exc # "" THEN e ELSE Field_init(w, TypeMember(e.ret), "")
                     : e \in {ensure(w, mem)} })
          : mem \in {GetAttr(w, t, name)} })

\* the loop body without its `except TypeError: continue`: the TypeError of
\* __ensure__ leaves the loop
CreateOwnField_raising(w, t, name) ==
    The({ IF r.exc # "" THEN Result(w, r.exc, 0)
          ELSE The({ IF name \notin NsNames(w.types[t])
                     THEN Result(w2, "AttributeError", 0)
                     ELSE Result([w2 EXCEPT !.types[t].ns = {e \in @ : e[1] # name}],
                                 "", 0)
                     : w2 \in {[set_container(r.w, r.ret, SchemaOf(w, t), t, name)
                                   EXCEPT !.types[t].fields = ODSet(@, name, r.ret)]} })
          : r \in {OwnField(w, t, name)} })

\* one iteration of the loop of __create_own_fields
CreateOwnField(w, t, name) ==
    The({ IF r.exc # "" THEN Result(w, "", 0)                    \* continue
          ELSE The({ IF name \notin NsNames(w.types[t])
                     THEN Result(w2, "AttributeError", 0)       \* delattr
                     ELSE Result([w2 EXCEPT !.types[t].ns = {e \in @ : e[1] # name}],
                                 "", 0)
                     : w2 \in {[set_container(r.w, r.ret, SchemaOf(w, t), t, name)
                                   EXCEPT !.types[t].fields = ODSet(@, name, r.ret)]} })
          : r \in {OwnField(w, t, name)} })

RECURSIVE CreateLoop(_, _, _)
CreateLoop(w, t, names) ==
    IF names = <<>> THEN Result(w, "", 0)
    ELSE The({ IF r.exc # "" THEN r ELSE CreateLoop(r.w, t, Tail(names))
               : r \in {CreateOwnField(w, t, names[1])} })

\* ContainerTypeMeta.__create_own_fields
create_own_fields(w, t) == CreateLoop(w, t, Dir(w, t))

\* ContainerTypeMeta.__init__ after super().__init__ returned
ContainerTypeMeta_build(w, t) ==
    The({ IF w.types[t].bases = <<>> \/ BaseType \in Range(w.types[t].bases)
             \/ ContainerType \in Range(w.types[t].bases)
          THEN Result(w1, "", 0)
          ELSE The({ create_own_fields(w3, t)
                     : w3 \in {inherit_fields(populate_interfaces(
                                   IF KindOf(w1, t) = "interface"
                                   THEN fix_type_kind(w1, t) ELSE w1, t), t)} })
          : w1 \in {[w EXCEPT !.types[t].fields = <<>>,
                              !.types[t].interfaces = <<>>]} })

\* ContainerTypeMeta.__init__
ContainerTypeMeta_init(w, t) ==
    The({ IF r.exc # "" THEN r ELSE ContainerTypeMeta_build(r.w, t)
          : r \in {BaseMeta_init(w, t)} })

\* EnumMeta.__init__
EnumMeta_init(w, t) ==
    The({ IF r.exc # "" THEN r
          ELSE The({ IF ch = <<>> /\ BaseType \notin Range(w.types[t].bases)
                     THEN Result(r.w, "ValueError", 0)
                     ELSE Result([r.w EXCEPT
                                     !.types[t].hasChoices = TRUE,
                                     !.types[t].choices = ch,
                                     !.types[t].ns = @ \cup {<<ch[i], OtherMember>> : i \in 1..Len(ch)}],
                                 "", 0)
                     : ch \in {ChoicesOf(w, t)} })
          : r \in {BaseMeta_init(w, t)} })

\* ', '.join(str(i) for i in cls.__interfaces__)
RECURSIVE JoinNames(_, _)
JoinNames(w, ts) ==
    IF ts = <<>> THEN ""
    ELSE IF Len(ts) = 1 THEN w.types[ts[1]].name
    ELSE w.types[ts[1]].name \o ", " \o JoinNames(w, Tail(ts))

\* Field.__to_graphql__ of a field without arguments (ArgDict renders '')
Field_to_graphql(w, f) ==
    w.fieldObjs[f].graphql_name \o ": " \o w.types[FieldType(w, f)].name

\* BaseMeta.__to_graphql__ with indent = 0
BaseMeta_to_graphql(w, t) == KindOf(w, t) \o " " \o w.types[t].name

\* ContainerTypeMeta.__to_graphql__ with indent = 0 and the two-space
\* indent string, as the sequence of the lines it joins
ContainerTypeMeta_to_graphql(w, t) ==
    << BaseMeta_to_graphql(w, t)
         \o (IF w.types[t].interfaces # <<>>
             THEN " implements " \o JoinNames(w, w.types[t].interfaces)
             ELSE "")
         \o " {" >>
    \o [i \in 1..Len(w.types[t].fields) |->
           "  " \o Field_to_graphql(w, w.types[t].fields[i][2])]
    \o << "}" >>

-----------------------------------------------------------------------------
(* The class statement: body, MRO, metaclass, metaclass __init__.          *)

\* a declaration: class <name>(<bases>) with __schema__ (0: not set),
\* __choices__ (<<>>: not set), converter ("": not set), the public members
\* in the order they are written, and for the classes built by non_null
\* and list_of the wrapper mode
Decl(name, bases, schema, body, choices, conv, wrap) ==
    [name |-> name, bases |-> bases, schema |-> schema, body |-> body,
     choices |-> choices, conv |-> conv, wrap |-> wrap]

\* C3 linearisation; <<0>> marks "Cannot create a consistent MRO"
RECURSIVE C3Merge(_)
C3Merge(seqs) ==
    LET ne == SelectSeq(seqs, LAMBDA q : q # <<>>)
        good == {i \in 1..Len(ne) :
                    \A j \in 1..Len(ne) : ne[i][1] \notin Range(Tail(ne[j]))}
    IN IF ne = <<>> THEN <<>>
       ELSE IF good = {} THEN <<0>>
       ELSE LET h == ne[CHOOSE i \in good : \A j \in good : i <= j][1]
            IN <<h>> \o C3Merge([k \in 1..Len(ne) |->
                                    IF ne[k][1] = h THEN Tail(ne[k]) ELSE ne[k]])

Mro(w, t, bases) ==
    <<t>> \o C3Merge([i \in 1..Len(bases) |-> w.types[bases[i]].mro] \o <<bases>>)

\* the metaclass of the new class: the most derived metaclass of the bases,
\* "" when EnumMeta and ContainerTypeMeta meet (metaclass conflict)
MetaOf(w, bases) ==
    LET ms == {w.types[bases[i]].meta : i \in 1..Len(bases)}
    IN IF {"enum", "container"} \subseteq ms THEN ""
       ELSE IF "enum" \in ms THEN "enum"
       ELSE IF "container" \in ms THEN "container"
       ELSE "base"

\* the class body: every Field(...) call builds a Field object
RECURSIVE ExecBody(_, _, _)
ExecBody(w, body, ns) ==
    IF body = <<>> THEN Result(w, "", ns)
    ELSE IF body[1][2].m # "Field"
    THEN ExecBody(w, Tail(body), ns \cup {body[1]})
    ELSE The({ IF r.exc # "" THEN r
               ELSE ExecBody(r.w, Tail(body),
                             ns \cup {<<body[1][1], FieldMember(r.ret)>>})
               : r \in {Field_init(w, body[1][2], body[1][2].g)} })

\* the class object type.__new__ builds, as row t of the class table
NewClass(w, d, t, ns) ==
    [MkType(d.name, d.bases, Mro(w, t, d.bases), "", d.schema,
            MetaOf(w, d.bases), d.conv)
        EXCEPT !.ns = ns,
               !.hasChoices = d.choices # <<>>,
               !.choices = d.choices,
               !.wrap = d.wrap,
               !.wbase = IF d.wrap = "" THEN 0 ELSE d.bases[1],
               !.autoreg = d.wrap = ""]

\* the metaclass __init__ of the class in row t
MetaInit(w, t) ==
    CASE w.types[t].meta = "container" -> ContainerTypeMeta_init(w, t)
      [] w.types[t].meta = "enum" -> EnumMeta_init(w, t)
      [] OTHER -> BaseMeta_init(w, t)

\* class name(bases): body.  The class object exists once its metaclass is
\* called; an exception of the metaclass __init__ raised after the class was
\* registered leaves it in the registry.
ClassStatement(w, d) ==
    The({ IF b.exc # "" THEN Result(w, b.exc, 0)
          ELSE The({ IF 0 \in Range(c.mro) \/ c.meta = ""
                     THEN Result(w, "TypeError", 0)
                     ELSE The({ IF r.exc # "" /\ r.w.types = Append(b.w.types, c)
                                   /\ r.w.schemas = b.w.schemas
                                   /\ r.w.fieldObjs = b.w.fieldObjs
                                THEN Result(w, r.exc, 0)
                                ELSE Result(r.w, r.exc, Len(w.types) + 1)
                                : r \in {MetaInit([b.w EXCEPT !.types = Append(@, c)],
                                                  Len(w.types) + 1)} })
                     : c \in {NewClass(w, d, Len(w.types) + 1, b.ret)} })
          : b \in {ExecBody(w, d.body, {})} })

-----------------------------------------------------------------------------
(* Wrapper factory                                                         *)

\* the wrapper factory without its cache lookup: every call builds a class
Wrapper_uncached(w, typ, mode, prefix, suffix) ==
    The({ IF e.exc # "" THEN e
          ELSE The({ IF r.exc # "" THEN r
                     ELSE Result([r.w EXCEPT !.schemas[SchemaOf(w, e.ret)].cache =
                                      ODSet(@, prefix \o w.types[e.ret].name \o suffix, r.ret)],
                                 "", r.ret)
                     : r \in {ClassStatement(w, Decl(prefix \o w.types[e.ret].name \o suffix,
                                                     <<e.ret>>, 0, <<>>, <<>>, "", mode))} })
          : e \in {ensure(w, typ)} })

\* type(name, (t,), {...}) and the store into the cache
BuildWrapper(w, t, mode, name) ==
    The({ IF r.exc # "" THEN r
          ELSE Result([r.w EXCEPT !.schemas[SchemaOf(w, t)].cache = ODSet(@, name, r.ret)],
                      "", r.ret)
          : r \in {ClassStatement(w, Decl(name, <<t>>, 0, <<>>, <<>>, "", mode))} })

\* the body shared by non_null and list_of: resolve the type, return the
\* cached wrapper of that name or build, cache and return a new one
Wrapper(w, typ, mode, prefix, suffix) ==
    The({ IF e.exc # "" THEN e
          ELSE The({ IF ODHas(w.schemas[SchemaOf(w, e.ret)].cache, name)
                     THEN Result(w, "", ODGet(w.schemas[SchemaOf(w, e.ret)].cache, name))
                     ELSE BuildWrapper(w, e.ret, mode, name)
                     : name \in {prefix \o w.types[e.ret].name \o suffix} })
          : e \in {ensure(w, typ)} })

\* non_null
non_null(w, typ) == Wrapper(w, typ, "non_null", "", "!")

\* list_of
list_of(w, typ) == Wrapper(w, typ, "list_of", "[", "]")

-----------------------------------------------------------------------------
(* Values.  A JSON value or a Python value is a pair <<tag, payload>>:     *)
(* None, an int, a str, a list, a reference to a dict object (a decoded    *)
(* JSON object, row of `dicts`) or to a container instance (row of         *)
(* `insts`).                                                               *)
(* A JSON object written out by value, as an input or as the dict that     *)
(* __to_json_value__ builds, is <<"obj", entries>>.                        *)

None == <<"null", 0>>
IntVal(i) == <<"int", i>>
StrVal(s) == <<"str", s>>
DictRef(d) == <<"dict", d>>
InstRef(i) == <<"inst", i>>
ObjTree(entries) == <<"obj", entries>>

\* the decimal numerals of the model and the integers they denote
Numerals == << <<"0", 0>>, <<"7", 7>>, <<"42", 42>> >>

\* the numeral of an integer
NumeralOf(i) == (CHOOSE e \in Range(Numerals) : e[2] = i)[1]

\* the result of an expression that touches no object
Value(exc, ret) == [exc |-> exc, ret |-> ret]

\* json.loads: the dict objects of a JSON text, innermost first
RECURSIVE AllocEntries(_, _, _)
RECURSIVE AllocElems(_, _, _)
RECURSIVE Alloc(_, _)
AllocEntries(w, entries, acc) ==
    IF entries = <<>>
    THEN Result([w EXCEPT !.dicts = Append(@, acc)], "", DictRef(Len(w.dicts) + 1))
    ELSE The({ AllocEntries(r.w, Tail(entries), Append(acc, <<entries[1][1], r.ret>>))
               : r \in {Alloc(w, entries[1][2])} })

AllocElems(w, elems, acc) ==
    IF elems = <<>> THEN Result(w, "", <<"list", acc>>)
    ELSE The({ AllocElems(r.w, Tail(elems), Append(acc, r.ret))
               : r \in {Alloc(w, elems[1])} })

Alloc(w, tree) ==
    CASE tree[1] = "obj" -> AllocEntries(w, tree[2], <<>>)
      [] tree[1] = "list" -> AllocElems(w, tree[2], <<>>)
      [] OTHER -> Result(w, "", tree)

\* a value with every dict object written out: the JSON text of the value.
\* Key order does not count in a JSON object, so the entries form a set.
RECURSIVE Canon(_, _)
Canon(w, v) ==
    CASE v[1] = "dict" -> <<"obj", {<<e[1], Canon(w, e[2])>> : e \in Range(w.dicts[v[2]])}>>
      [] v[1] = "obj" -> <<"obj", {<<e[1], Canon(w, e[2])>> : e \in Range(v[2])}>>
      [] v[1] = "list" -> <<"list", [k \in 1..Len(v[2]) |-> Canon(w, v[2][k])]>>
      [] OTHER -> v

\* bool(value): an instance is as true as its __len__, the number of
\* materialised fields
Truth(w, v) ==
    CASE v[1] = "null" -> FALSE
      [] v[1] \in {"int", "float"} -> v[2] # 0
      [] v[1] = "str" -> v[2] # ""
      [] v[1] = "bool" -> v[2]
      [] v[1] \in {"list", "obj"} -> v[2] # <<>>
      [] v[1] = "dict" -> w.dicts[v[2]] # <<>>
      [] v[1] = "inst" -> w.insts[v[2]].cache # <<>>
      [] OTHER -> TRUE

\* Scalar.converter of the built-in scalars: int, float, str, bool and the
\* pass-through of Scalar itself.  str() of None, of a bool and of a dict is
\* its repr, "{...}" standing for the repr of a dict with entries.
Convert(w, conv, v) ==
    CASE conv = "int" ->
           (CASE v[1] = "int" -> Value("", v)
              [] v[1] = "bool" -> Value("", IntVal(IF v[2] THEN 1 ELSE 0))
              [] v[1] = "str" -> IF ODHas(Numerals, v[2])
                                 THEN Value("", IntVal(ODGet(Numerals, v[2])))
                                 ELSE Value("ValueError", None)
              [] OTHER -> Value("TypeError", None))
      [] conv = "float" ->
           (CASE v[1] = "int" -> Value("", <<"float", v[2]>>)
              [] v[1] = "bool" -> Value("", <<"float", IF v[2] THEN 1 ELSE 0>>)
              [] v[1] = "str" -> IF ODHas(Numerals, v[2])
                                 THEN Value("", <<"float", ODGet(Numerals, v[2])>>)
                                 ELSE Value("ValueError", None)
              [] OTHER -> Value("TypeError", None))
      [] conv = "str" ->
           (CASE v[1] = "int" -> Value("", StrVal(NumeralOf(v[2])))
              [] v[1] = "str" -> Value("", v)
              [] v[1] = "null" -> Value("", StrVal("None"))
              [] v[1] = "bool" -> Value("", StrVal(IF v[2] THEN "True" ELSE "False"))
              [] v[1] = "obj" -> Value("", StrVal(IF v[2] = <<>> THEN "{}" ELSE "{...}"))
              [] OTHER -> Value("", StrVal("{...}")))
      [] conv = "bool" ->
           Value("", <<"bool", Truth(w, v)>>)
      [] OTHER -> Value("", v)

-----------------------------------------------------------------------------
(* Container instances.  `attrs` is the instance __dict__ without the      *)
(* three private entries, which are `sel` (__selection_list__: given or    *)
(* None, and its entries [field, alias], alias "" for no alias), `cache`   *)
(* (__fields_cache__) and `json` (__json_data__, present once `done`).     *)

NoSelection == [given |-> FALSE, items |-> <<>>]
Selection(items) == [given |-> TRUE, items |-> items]
Sel(f, alias) == [field |-> f, alias |-> alias]

NewInst(t, sel) ==
    [cls |-> t, sel |-> sel, cache |-> <<>>, attrs |-> <<>>,
     json |-> None, done |-> FALSE]

\* hasattr(self, name): the instance __dict__, then the classes of the MRO
HasAttr(w, i, name) ==
    \/ ODHas(w.insts[i].attrs, name)
    \/ \E k \in 1..Len(w.types[w.insts[i].cls].mro) :
          name \in NsNames(w.types[w.types[w.insts[i].cls].mro[k]])

\* getattr(self, name)
GetInstAttr(w, i, name) ==
    IF ODHas(w.insts[i].attrs, name) THEN ODGet(w.insts[i].attrs, name)
    ELSE <<"member", GetAttr(w, w.insts[i].cls, name)>>

RECURSIVE to_json_value(_, _, _)
RECURSIVE JsonItems(_, _, _, _)
RECURSIVE JsonList(_, _, _)
RECURSIVE JsonElems(_, _, _, _)

\* the loop of ContainerTypeMeta.__to_json_value__ over cls.__fields.items()
JsonItems(w, i, items, d) ==
    IF items = <<>> THEN Value("", ObjTree(d))
    ELSE IF ~HasAttr(w, i, items[1][1]) THEN JsonItems(w, i, Tail(items), d)
    ELSE The({ IF r.exc # "" THEN r
               ELSE JsonItems(w, i, Tail(items),
                              ODSet(d, w.fieldObjs[items[1][2]].graphql_name, r.ret))
               : r \in {to_json_value(w, FieldType(w, items[1][2]),
                                      GetInstAttr(w, i, items[1][1]))} })

\* ContainerTypeMeta.__to_json_value__(cls, value), value an instance
ContainerTypeMeta_to_json_value(w, t, i) ==
    JsonItems(w, i, w.types[t].fields, <<>>)

\* typ.__to_json_value__(value).  A scalar or an enum returns the value; on
\* a container class the name finds ContainerType.__to_json_value__, which
\* takes the value as self and serialises it as value.__class__: None gives
\* None and a value that is no instance has no field table
to_json_value(w, t, v) ==
    IF w.types[t].wrap = "list_of" THEN JsonList(w, w.types[t].wbase, v)
    ELSE IF IsSubclass(w, t, Scalar) \/ IsSubclass(w, t, Enum) THEN Value("", v)
    ELSE IF w.types[t].meta # "container" THEN Value("AttributeError", None)
    ELSE IF v = None THEN Value("", None)
    ELSE IF v[1] # "inst" THEN Value("AttributeError", None)
    ELSE ContainerTypeMeta_to_json_value(w, w.insts[v[2]].cls, v[2])

\* __to_json_value__ of a list_of wrapper
JsonList(w, t, v) ==
    IF v = None THEN Value("", None)
    ELSE IF v[1] # "list" THEN Value("TypeError", None)
    ELSE JsonElems(w, t, v[2], <<>>)

JsonElems(w, t, vs, acc) ==
    IF vs = <<>> THEN Value("", <<"list", acc>>)
    ELSE The({ IF r.exc # "" THEN r
               ELSE JsonElems(w, t, Tail(vs), Append(acc, r.ret))
               : r \in {to_json_value(w, t, vs[1])} })

\* instance.__to_json_value__()
toJSON(w, i) == ContainerTypeMeta_to_json_value(w, w.insts[i].cls, i)

\* `key in json_data`: a dict has the key or not, a str is searched for the
\* substring (no str of the model contains a wire name), an int is not
\* iterable
JsonHas(w, json, key) ==
    CASE json[1] = "dict" -> Value("", ODHas(w.dicts[json[2]], key))
      [] json[1] = "str" -> Value("", FALSE)
      [] OTHER -> Value("TypeError", FALSE)

RECURSIVE Construct(_, _, _, _)
RECURSIVE ConstructAll(_, _, _, _, _)
RECURSIVE SetFields(_, _, _, _)

\* set_field(name, field) of ContainerType.__init__ for each <<name, field>>
\* in turn; field.type(value) passes no selection list
SetFields(w, i, json, entries) ==
    IF entries = <<>> THEN Result(w, "", 0)
    ELSE The({ IF h.exc # "" THEN Result(w, h.exc, 0)
               ELSE IF ~h.ret THEN SetFields(w, i, json, Tail(entries))
               ELSE The({ IF r.exc # "" THEN Result(w, "ValueError", 0)
                          ELSE SetFields([r.w EXCEPT
                                             !.insts[i].attrs = ODSet(@, entries[1][1], r.ret),
                                             !.insts[i].cache = ODSet(@, entries[1][1], entries[1][2])],
                                         i, json, Tail(entries))
                          : r \in {Construct(w, FieldType(w, entries[1][2]),
                                             ODGet(w.dicts[json[2]],
                                                   w.fieldObjs[entries[1][2]].graphql_name),
                                             NoSelection)} })
               : h \in {JsonHas(w, json, w.fieldObjs[entries[1][2]].graphql_name)} })

\* the <<name, field>> pairs ContainerType.__init__ walks: the selection
\* list with `sel.__alias__ or field.name`, or the fields of the class
SelectedFields(w, t, sel) ==
    IF sel.given
    THEN [k \in 1..Len(sel.items) |->
            << IF sel.items[k].alias # "" THEN sel.items[k].alias
               ELSE w.fieldObjs[sel.items[k].field].name,
               sel.items[k].field >>]
    ELSE [k \in 1..Len(w.types[t].fields) |->
            << w.fieldObjs[w.types[t].fields[k][2]].name, w.types[t].fields[k][2] >>]

\* ContainerType.__init__ on the new instance i
ContainerType_init(w, i, json, sel) ==
    IF json = None
    THEN Result([w EXCEPT !.dicts = Append(@, <<>>),
                          !.insts[i].json = DictRef(Len(w.dicts) + 1),
                          !.insts[i].done = TRUE], "", 0)
    ELSE The({ IF r.exc # "" THEN r
               ELSE Result([r.w EXCEPT !.insts[i].json = json,
                                       !.insts[i].done = TRUE], "", 0)
               : r \in {SetFields(w, i, json, SelectedFields(w, w.insts[i].cls, sel))} })

\* [t(v, selection_list) for v in json_data] of a list_of wrapper
ConstructAll(w, t, elems, sel, acc) ==
    IF elems = <<>> THEN Result(w, "", <<"list", acc>>)
    ELSE The({ IF r.exc # "" THEN r
               ELSE ConstructAll(r.w, t, Tail(elems), sel, Append(acc, r.ret))
               : r \in {Construct(w, t, elems[1], sel)} })

\* typ(json_data, selection_list): __new__ of the wrapper, of Scalar or of
\* Enum, or object.__new__ and ContainerType.__init__.  A call that raises
\* leaves no object behind.
Construct(w, t, json, sel) ==
    CASE w.types[t].wrap = "non_null" ->
           IF json = None THEN Result(w, "ValueError", None)
           ELSE Construct(w, w.types[t].wbase, json, NoSelection)
      [] w.types[t].wrap = "list_of" ->
           IF json = None THEN Result(w, "", None)
           ELSE IF json[1] # "list" THEN Result(w, "TypeError", None)
           ELSE The({ IF r.exc # "" THEN Result(w, r.exc, None) ELSE r
                      : r \in {ConstructAll(w, w.types[t].wbase, json[2], sel, <<>>)} })
      [] w.types[t].wrap = "" /\ IsSubclass(w, t, Scalar) ->
           IF json = None THEN Result(w, "", None)
           ELSE The({ Result(w, c.exc, c.ret) : c \in {Convert(w, ConverterOf(w, t), json)} })
      [] w.types[t].wrap = "" /\ IsSubclass(w, t, Enum) ->
           IF json = None THEN Result(w, "", None)
           ELSE IF json[1] = "str" /\ json[2] \in Range(ChoicesOf(w, t))
           THEN Result(w, "", json)
           ELSE Result(w, "ValueError", None)
      [] w.types[t].wrap = "" /\ w.types[t].meta = "container" ->
           The({ IF r.exc # "" THEN Result(w, r.exc, None)
                 ELSE Result(r.w, "", InstRef(Len(w.insts) + 1))
                 : r \in {ContainerType_init(
                             [w EXCEPT !.insts = Append(@, NewInst(t, sel))],
                             Len(w.insts) + 1, json, sel)} })
      [] OTHER -> Result(w, "TypeError", None)

\* the store into the backing dict at the end of ContainerType.__setattr__
StoreJson(w, i, f, value) ==
    IF w.insts[i].json[1] # "dict" THEN Result(w, "TypeError", 0)
    ELSE The({ Result([a.w EXCEPT !.dicts[w.insts[i].json[2]] =
                          ODSet(@, w.fieldObjs[f].graphql_name, a.ret)], "", 0)
               : a \in {Alloc(w, value)} })

\* ContainerType.__setattr__
ContainerType_setattr(w, i, name, value) ==
    The({ IF ~w.insts[i].done \/ ~ODHas(w.insts[i].cache, name)
          THEN Result(w1, "", 0)
          ELSE The({ IF j.exc # "" THEN Result(w1, j.exc, 0)
                     ELSE StoreJson(w1, i, ODGet(w.insts[i].cache, name), j.ret)
                     : j \in {to_json_value(w1, FieldType(w, ODGet(w.insts[i].cache, name)),
                                            value)} })
          : w1 \in {[w EXCEPT !.insts[i].attrs = ODSet(@, name, value)]} })

\* ContainerType.__iter__
ContainerType_iter(w, i) == ODKeys(w.insts[i].cache)

\* ContainerType.__len__
ContainerType_len(w, i) == Len(ContainerType_iter(w, i))

\* ContainerType.__contains__
ContainerType_contains(w, i, name) == HasAttr(w, i, name)

-----------------------------------------------------------------------------
(* Arg                                                                     *)

\* typ(default) with typ as it was handed to Arg: a class decodes the value,
\* int, float, str and bool convert it, id returns its address
CallTyp(w, typ, default) ==
    CASE typ.m = "type" ->
           The({ Construct(a.w, typ.t, a.ret, NoSelection) : a \in {Alloc(w, default)} })
      [] typ.m = "py" /\ typ.p = "id" -> Result(w, "", IntVal(1))
      [] typ.m = "py" ->
           The({ Result(w, c.exc, c.ret) : c \in {Convert(w, typ.p, default)} })
      [] OTHER -> Result(w, "TypeError", None)

\* Arg.__init__: BaseItem.__init__, then `assert typ(default)` for a default
\* that is not None; debug is __debug__, False under python -O, where the
\* assert statement is not executed.  The value typ(default) returns is
\* dropped, the Arg keeps the default as given.
Arg_init(w, typ, graphql_name, default, debug) ==
    The({ IF e.exc # "" THEN Result(w, e.exc, None)
          ELSE IF default = None \/ ~debug
          THEN Result(w, "", <<"arg", [type |-> e.ret, graphql_name |-> graphql_name,
                                       default |-> default]>>)
          ELSE The({ IF r.exc # "" THEN Result(w, r.exc, None)
                     ELSE IF ~Truth(r.w, r.ret) THEN Result(w, "AssertionError", None)
                     ELSE Result(w, "", <<"arg", [type |-> e.ret,
                                                  graphql_name |-> graphql_name,
                                                  default |-> default]>>)
                     : r \in {CallTyp(w, typ, default)} })
          : e \in {ensure(w, typ)} })

-----------------------------------------------------------------------------
(* The state after the module is imported.                                 *)

BuiltinDecls ==
    << Decl("Int", <<Scalar>>, 0, <<>>, <<>>, "int", ""),
       Decl("Float", <<Scalar>>, 0, <<>>, <<>>, "float", ""),
       Decl("String", <<Scalar>>, 0, <<>>, <<>>, "str", ""),
       Decl("Boolean", <<Scalar>>, 0, <<>>, <<>>, "bool", ""),
       Decl("ID", <<Scalar>>, 0, <<>>, <<>>, "str", "") >>

RECURSIVE DeclareAll(_, _)
DeclareAll(w, ds) ==
    IF ds = <<>> THEN w ELSE DeclareAll(ClassStatement(w, ds[1]).w, Tail(ds))

\* global_schema = Schema(), then the built-in scalars
ModuleWorld ==
    DeclareAll(Schema_init([types |-> AbstractTypes, fieldObjs |-> <<>>,
                            schemas |-> <<>>, insts |-> <<>>, dicts |-> <<>>], 0).w,
               BuiltinDecls)

global_schema == 1

\* the outcome of the last operation: what was called, the exception it
\* raised ("" when it returned) and the value it returned, tagged (None
\* when there is none)
Last(op, exc, ret) == [op |-> op, exc |-> exc, ret |-> ret]

\* `count` counts the decode calls and the attribute writes of a behaviour
NoCalls == [decodes |-> 0, writes |-> 0]

\* `calls` is a history variable: the wrapper-factory calls that returned,
\* each with the schema the type was looked up in, the type and the wrapper
SetWorld(w) ==
    /\ types' = w.types
    /\ fieldObjs' = w.fieldObjs
    /\ schemas' = w.schemas
    /\ insts' = w.insts
    /\ dicts' = w.dicts

Init ==
    \E w \in {ModuleWorld} :
       /\ types = w.types
       /\ fieldObjs = w.fieldObjs
       /\ schemas = w.schemas
       /\ insts = w.insts
       /\ dicts = w.dicts
       /\ last = Last("import", "", None)
       /\ calls = {}
       /\ count = NoCalls

-----------------------------------------------------------------------------
(* Operations of the registry and of the declaration surface.              *)

\* Schema(base)
NewSchema(base) ==
    /\ Len(schemas) < 1 + MaxSchemas
    /\ \E r \in {Schema_init(World, base)} :
          /\ SetWorld(r.w)
          /\ last' = Last("Schema", r.exc, <<"schema", r.ret>>)
          /\ UNCHANGED <<calls, count>>

\* class d.name(d.bases): ...
Declare(d) ==
    /\ Len(types) < NBuiltin + MaxUserTypes
    /\ \E r \in {ClassStatement(World, d)} :
          /\ SetWorld(r.w)
          /\ last' = Last("class", r.exc, <<"type", r.ret>>)
          /\ UNCHANGED <<calls, count>>

\* schema += typ
Register(s, t) ==
    \E r \in {Schema_iadd(World, s, t)} :
       /\ SetWorld(r.w)
       /\ last' = Last("iadd", r.exc, None)
       /\ UNCHANGED <<calls, count>>

\* schema -= typ
Unregister(s, t) ==
    \E r \in {Schema_isub(World, s, t)} :
       /\ SetWorld(r.w)
       /\ last' = Last("isub", r.exc, None)
       /\ UNCHANGED <<calls, count>>

\* non_null(schema[name])
NonNull(s, name) ==
    /\ Len(types) < NBuiltin + MaxUserTypes
    /\ Schema_contains(World, s, name)
    /\ \E t \in {Schema_getitem(World, s, name)} :
       \E r \in {non_null(World, TypeMember(t))} :
          /\ SetWorld(r.w)
          /\ last' = Last("non_null", r.exc, <<"type", r.ret>>)
          /\ calls' = IF r.exc # "" THEN calls
                       ELSE calls \cup {[mode |-> "non_null", s |-> s, t |-> t, ret |-> r.ret]}
          /\ UNCHANGED count

\* list_of(schema[name])
ListOf(s, name) ==
    /\ Len(types) < NBuiltin + MaxUserTypes
    /\ Schema_contains(World, s, name)
    /\ \E t \in {Schema_getitem(World, s, name)} :
       \E r \in {list_of(World, TypeMember(t))} :
          /\ SetWorld(r.w)
          /\ last' = Last("list_of", r.exc, <<"type", r.ret>>)
          /\ calls' = IF r.exc # "" THEN calls
                       ELSE calls \cup {[mode |-> "list_of", s |-> s, t |-> t, ret |-> r.ret]}
          /\ UNCHANGED count

-----------------------------------------------------------------------------
(* The registry: schemas, declarations of scalars and enums, registration  *)
(* and the wrapper factory.                                                *)

SchemaIds == 1..Len(schemas)

\* the classes a caller can hold: the built-in scalars and the user classes
ClassIds == (Len(AbstractTypes) + 1)..Len(types)

TypeNames == {"Int", "ID", "Foo"}

\* class Foo(Scalar) and class Foo(Enum), declared in global_schema
RegistryDecls ==
    { Decl("Foo", <<Scalar>>, 0, <<>>, <<>>, "", ""),
      Decl("Foo", <<Enum>>, 0, <<>>, <<"A", "B">>, "", "") }

\* the same declarations with __schema__ set to any schema
WrapDecls ==
    {[d EXCEPT !.schema = s] : d \in RegistryDecls, s \in {0} \cup (SchemaIds \ {1})}

\* the classes the model registers and unregisters by hand
UserClassIds == (NBuiltin + 1)..Len(types)

Next ==
    \/ \E base \in {0} \cup SchemaIds : NewSchema(base)
    \/ \E d \in RegistryDecls : Declare(d)
    \/ \E s \in SchemaIds, t \in UserClassIds : Register(s, t)
    \/ \E s \in SchemaIds, t \in UserClassIds : Unregister(s, t)

Spec == Init /\ [][Next]_vars

\* the wrapper factory over the types found in the registries
NextWrap ==
    \/ \E base \in {0} \cup SchemaIds : NewSchema(base)
    \/ \E d \in WrapDecls : Declare(d)
    \/ \E s \in SchemaIds, name \in TypeNames : NonNull(s, name)
    \/ \E s \in SchemaIds, name \in TypeNames : ListOf(s, name)

SpecWrap == Init /\ [][NextWrap]_vars

-----------------------------------------------------------------------------
(* The container builder: declarations of types and interfaces.            *)

\* the members of a class body, in the order they are written
DeclBodies ==
    { <<>>,
      << <<"b", PyMember("str")>>, <<"a_b", PyMember("int")>> >>,
      << <<"b", PyMember("int")>> >>,
      << <<"x", FieldCall(IDType, "ident")>>, <<"n", TypeMember(IntType)>> >> }

\* one or two distinct bases among Type, Interface and the user's classes
BaseLists ==
    LET bs == {Type, Interface} \cup UserClassIds
    IN {<<b>> : b \in bs} \cup {p \in bs \X bs : p[1] # p[2]}

ContainerDecls ==
    { Decl(name, bases, 0, body, <<>>, "", "")
      : name \in {"Node", "Person"}, bases \in BaseLists, body \in DeclBodies }

NextDecl == \E d \in ContainerDecls : Declare(d)

SpecDecl == Init /\ [][NextDecl]_vars

\* declarations of types and interfaces without fields, among them an
\* interface declared on a base of kind `type`, with registration by hand
\* and registries built from a base
KindDecls ==
    { Decl(name, bases, 0, <<>>, <<>>, "", "")
      : name \in {"Node", "Person"},
        bases \in {<<Type>>, <<Interface>>, <<Interface, Type>>}
                  \cup {<<u>> : u \in UserClassIds}
                  \cup {<<Interface, u>> : u \in UserClassIds} }

NextKinds ==
    \/ \E base \in {0} \cup SchemaIds : NewSchema(base)
    \/ \E d \in KindDecls : Declare(d)
    \/ \E s \in SchemaIds, t \in UserClassIds : Register(s, t)
    \/ \E s \in SchemaIds, t \in UserClassIds : Unregister(s, t)

SpecKinds == Init /\ [][NextKinds]_vars

\* class bodies with a public member that is no type, no Field and no mapped
\* identifier (b = 3.5, a method, ...), alone or next to a field, and with a
\* Field(...) call on such a value
MemberBodies ==
    { << <<"b", OtherMember>> >>,
      << <<"x", PyMember("int")>>, <<"b", OtherMember>> >>,
      << <<"b", OtherMember>>, <<"n", TypeMember(IntType)>> >>,
      << <<"b", FieldCall(0, "")>> >>,
      << <<"n", PyMember("int")>> >> }

MemberDecls ==
    { Decl(name, <<base>>, 0, body, <<>>, "", "")
      : name \in {"Node", "Person"}, base \in {Type, Interface} \cup UserClassIds,
        body \in MemberBodies }

NextMember == \E d \in MemberDecls : Declare(d)

SpecMember == Init /\ [][NextMember]_vars

-----------------------------------------------------------------------------
(* The instance codec: decoding JSON into container instances, attribute   *)
(* writes, and decoding through non_null wrappers.                         *)

ChildType == NBuiltin + 1
PType == NBuiltin + 2
EType == NBuiltin + 3
ColorType == NBuiltin + 4

\* class Child(Type): x = int
\* class P(Type): a_b = str; child = Child; n = id
\* class E(Type): pass
\* class Color(Enum): __choices__ = ('A', 'B')
CodecDecls ==
    << Decl("Child", <<Type>>, 0, << <<"x", PyMember("int")>> >>, <<>>, "", ""),
       Decl("P", <<Type>>, 0,
            << <<"a_b", PyMember("str")>>, <<"child", TypeMember(ChildType)>>,
               <<"n", PyMember("id")>> >>, <<>>, "", ""),
       Decl("E", <<Type>>, 0, <<>>, <<>>, "", ""),
       Decl("Color", <<Enum>>, 0, <<>>, <<"A", "B">>, "", "") >>

CodecWorld == DeclareAll(ModuleWorld, CodecDecls)

InitCodec ==
    \E w \in {CodecWorld} :
       /\ types = w.types
       /\ fieldObjs = w.fieldObjs
       /\ schemas = w.schemas
       /\ insts = w.insts
       /\ dicts = w.dicts
       /\ last = Last("import", "", None)
       /\ calls = {}
       /\ count = NoCalls

\* P(json_data, selection_list) for a class or a wrapper
Decode(t, tree, sel) ==
    /\ count.decodes < MaxDecodes
    /\ \E a \in {Alloc(World, tree)} :
       \E r \in {Construct(a.w, t, a.ret, sel)} :
          /\ SetWorld(IF r.exc # "" THEN World ELSE r.w)
          /\ last' = Last("decode", r.exc, r.ret)
          /\ count' = [count EXCEPT !.decodes = @ + 1]
          /\ UNCHANGED calls

\* instance.name = value
Write(i, name, value) ==
    /\ count.writes < MaxWrites
    /\ \E r \in {ContainerType_setattr(World, i, name, value)} :
          /\ SetWorld(r.w)
          /\ last' = Last("setattr", r.exc, None)
          /\ count' = [count EXCEPT !.writes = @ + 1]
          /\ UNCHANGED calls

\* instance.name = value, where a first write may be followed by others
WriteOn(i, name, value) ==
    /\ count.writes < 2 * MaxWrites
    /\ \E r \in {ContainerType_setattr(World, i, name, value)} :
          /\ SetWorld(r.w)
          /\ last' = Last("setattr", r.exc, None)
          /\ count' = [count EXCEPT !.writes = @ + 1]
          /\ UNCHANGED calls

\* non_null(t) on a class of the codec
NonNullOf(t) ==
    /\ Len(types) < NBuiltin + Len(CodecDecls) + MaxUserTypes
    /\ \E r \in {non_null(World, TypeMember(t))} :
          /\ SetWorld(r.w)
          /\ last' = Last("non_null", r.exc, <<"type", r.ret>>)
          /\ UNCHANGED <<calls, count>>

\* list_of(t) on a class of the codec
ListOfOf(t) ==
    /\ Len(types) < NBuiltin + Len(CodecDecls) + MaxUserTypes
    /\ \E r \in {list_of(World, TypeMember(t))} :
          /\ SetWorld(r.w)
          /\ last' = Last("list_of", r.exc, <<"type", r.ret>>)
          /\ UNCHANGED <<calls, count>>

\* class d.name(d.bases): ..., a class statement that may follow those of
\* the codec and the wrappers built so far
DeclareLater(d) ==
    /\ Len(types) < NBuiltin + Len(CodecDecls) + MaxUserTypes
    /\ \E r \in {ClassStatement(World, d)} :
          /\ SetWorld(r.w)
          /\ last' = Last("class", r.exc, <<"type", r.ret>>)
          /\ UNCHANGED <<calls, count>>

\* the class a wrapper wraps, a class itself
BaseOf(t) == IF types[t].wrap = "" THEN t ELSE types[t].wbase

\* the Field object of a declared field
FieldOf(t, name) == ODGet(types[t].fields, name)

\* JSON objects for P whose values have the JSON type of their field or are
\* null, with and without a key that is no field
TypedTrees(t) ==
    CASE t = PType ->
           { ObjTree(a \o c \o n)
             : a \in { <<>>, << <<"aB", StrVal("7")>> >>, << <<"aB", None>> >> },
               c \in { <<>>, << <<"child", None>> >>, << <<"child", ObjTree(<<>>)>> >>,
                       << <<"child", ObjTree(<< <<"x", IntVal(7)>> >>)>> >> },
               n \in { <<>>, << <<"n", StrVal("42")>> >> } }
           \cup { ObjTree(<< <<"aB", StrVal("7")>>, <<"zz", IntVal(7)>> >>) }
      [] t = ChildType ->
           { ObjTree(<<>>), ObjTree(<< <<"x", IntVal(7)>> >>), ObjTree(<< <<"x", None>> >>) }
      [] t = EType -> { ObjTree(<<>>), ObjTree(<< <<"x", IntVal(7)>> >>) }
      [] t = ColorType -> { StrVal("A") }
      [] t = IntType -> { IntVal(7) }
      [] OTHER -> {}

\* null, and values of another JSON type than the field's
OtherTrees(t) ==
    CASE t = PType ->
           { None,
             ObjTree(<< <<"n", IntVal(42)>> >>),
             ObjTree(<< <<"child", ObjTree(<< <<"x", StrVal("7")>> >>)>> >>),
             ObjTree(<< <<"child", IntVal(7)>> >>) }
      [] t = ChildType ->
           { None, ObjTree(<< <<"x", StrVal("7")>> >>), ObjTree(<< <<"x", StrVal("Ada")>> >>) }
      [] t = EType -> { None }
      [] t = ColorType -> { None, StrVal("Z") }
      [] t = IntType -> { None, StrVal("7"), StrVal("Ada") }
      [] OTHER -> {}

\* selection lists: none, plain entries, aliased entries (an alias that is
\* no field name, an alias that is the name of another field); E declares
\* no field, and its lists are none, the empty list and a field of another
\* class
Selections(t) ==
    CASE t = PType ->
           { NoSelection,
             Selection(<< Sel(FieldOf(PType, "a_b"), "") >>),
             Selection(<< Sel(FieldOf(PType, "a_b"), "al") >>),
             Selection(<< Sel(FieldOf(PType, "a_b"), "n") >>),
             Selection(<< Sel(FieldOf(PType, "child"), ""), Sel(FieldOf(PType, "n"), "") >>) }
      [] t = ChildType ->
           { NoSelection,
             Selection(<< Sel(FieldOf(ChildType, "x"), "") >>),
             Selection(<< Sel(FieldOf(ChildType, "x"), "al") >>) }
      [] t = EType ->
           { NoSelection, Selection(<<>>),
             Selection(<< Sel(FieldOf(ChildType, "x"), "") >>) }
      [] OTHER -> { NoSelection }

\* the attribute names and the values the model writes: None, a str and
\* the Child instances (an instance written into its own child attribute
\* would make __to_json_value__ recurse without end)
WriteNames == {"a_b", "child", "n", "x", "al"}

WriteValues ==
    {None, StrVal("g")}
    \cup {InstRef(i) : i \in {k \in 1..Len(insts) : insts[k].cls = ChildType}}

NextCodec ==
    \/ \E t \in {PType, ChildType} :
       \E tree \in TypedTrees(t) \cup OtherTrees(t), sel \in Selections(t) :
          Decode(t, tree, sel)
    \/ \E i \in 1..Len(insts), name \in WriteNames, value \in WriteValues :
          Write(i, name, value)

SpecCodec == InitCodec /\ [][NextCodec]_vars

\* the classes non_null is called on, and the classes and cached wrappers
\* that decode
NonNullBases == {IntType, ColorType, EType, ChildType}

Decoders ==
    NonNullBases
    \cup {t \in ClassIds : /\ types[t].wrap = "non_null"
                           /\ \E s \in SchemaIds : t \in {e[2] : e \in Range(schemas[s].cache)}}

NextNonNull ==
    \/ \E t \in NonNullBases : NonNullOf(t)
    \/ \E t \in Decoders :
       \E tree \in TypedTrees(BaseOf(t)) \cup OtherTrees(BaseOf(t)),
          sel \in Selections(BaseOf(t)) :
          Decode(t, tree, sel)

SpecNonNull == InitCodec /\ [][NextNonNull]_vars

\* Arg(typ, graphql_name, default)
NewArg(typ, graphql_name, default, debug) ==
    \E r \in {Arg_init(World, typ, graphql_name, default, debug)} :
       /\ SetWorld(r.w)
       /\ last' = Last("Arg", r.exc, r.ret)
       /\ UNCHANGED <<calls, count>>

\* the types an argument is declared with: classes, mapped identifiers and
\* a value that is neither
ArgTypes ==
    {TypeMember(t) : t \in {IntType, FloatType, StringType, BooleanType, IDType,
                            ColorType, EType, ChildType}}
    \cup {PyMember(p) : p \in {"int", "float", "str", "bool", "id"}}
    \cup {OtherMember}

\* default values: none, values their type accepts (among them 0, False,
\* the empty string and the empty object) and values it rejects
ArgDefaults ==
    { None, IntVal(0), IntVal(7), StrVal(""), StrVal("7"), StrVal("Ada"), StrVal("A"),
      <<"bool", FALSE>>, <<"bool", TRUE>>, ObjTree(<<>>), ObjTree(<< <<"x", IntVal(7)>> >>) }

NextArg ==
    \E typ \in ArgTypes, g \in {"", "ident"}, default \in ArgDefaults, debug \in BOOLEAN :
       NewArg(typ, g, default, debug)

SpecArg == InitCodec /\ [][NextArg]_vars

\* decoding with the classes themselves: scalar, enum and containers
NullableTypes == {IntType, ColorType, EType, ChildType, PType}

NextNull ==
    \/ \E t \in NullableTypes :
       \E tree \in TypedTrees(t) \cup OtherTrees(t), sel \in Selections(t) :
          Decode(t, tree, sel)
    \/ \E i \in 1..Len(insts), name \in WriteNames, value \in WriteValues :
          Write(i, name, value)

SpecNull == InitCodec /\ [][NextNull]_vars

\* the classes list_of is called on, and the cached list_of wrappers
ListBases == {IntType, ColorType, EType, ChildType}

ListDecoders ==
    {t \in ClassIds : /\ types[t].wrap = "list_of"
                      /\ \E s \in SchemaIds : t \in {e[2] : e \in Range(schemas[s].cache)}}

\* null, the empty array and the arrays of one and two of the given values
ArraysOf(vs) ==
    {None, <<"list", <<>>>>} \cup {<<"list", <<v>>>> : v \in vs}
    \cup {<<"list", <<v, u>>>> : v \in vs, u \in vs}

\* JSON values for the elements of an array decoded with t
ElemTrees(t) ==
    CASE t = IntType -> { None, IntVal(7), StrVal("7"), StrVal("Ada") }
      [] t = ColorType -> { None, StrVal("A"), StrVal("Z") }
      [] t = EType -> { ObjTree(<<>>), ObjTree(<< <<"x", IntVal(7)>> >>) }
      [] OTHER -> TypedTrees(t)

NextList ==
    \/ \E t \in ListBases : ListOfOf(t)
    \/ \E t \in ListDecoders :
       \E tree \in ArraysOf(ElemTrees(BaseOf(t))), sel \in Selections(BaseOf(t)) :
          Decode(t, tree, sel)

SpecList == InitCodec /\ [][NextList]_vars

\* an instance held in an attribute of another: P decoded with a nested
\* object, with null and without the field, then writes of a value or of a
\* Child instance to the attributes of either
NestedTrees ==
    { ObjTree(<< <<"child", ObjTree(<< <<"x", IntVal(7)>> >>)>> >>),
      ObjTree(<< <<"child", ObjTree(<<>>)>>, <<"n", StrVal("42")>> >>),
      ObjTree(<< <<"child", None>> >>),
      ObjTree(<< <<"n", StrVal("42")>> >>) }

NextNested ==
    \/ \E tree \in NestedTrees : Decode(PType, tree, NoSelection)
    \/ \E i \in 1..Len(insts), name \in {"child", "x", "n"},
          value \in WriteValues \cup {IntVal(7)} :
          WriteOn(i, name, value)

SpecNested == InitCodec /\ [][NextNested]_vars

\* a type name used again: the scalar or enum Foo is declared, wrapped,
\* unregistered and declared again
Foos == {t \in UserClassIds : types[t].wrap = ""}

NextReuse ==
    \/ \E d \in RegistryDecls : DeclareLater(d)
    \/ \E t \in Foos : Unregister(global_schema, t)
    \/ \E t \in Foos : NonNullOf(t)
    \/ \E t \in Foos : ListOfOf(t)

SpecReuse == Init /\ [][NextReuse]_vars

\* the life of a declared container: derived declarations, wrappers,
\* registration and decoding
CodecContainers == {ChildType, PType, EType}

DerivedDecls ==
    { Decl("Sub", <<base>>, 0, body, <<>>, "", "")
      : base \in CodecContainers, body \in {<<>>, << <<"b", PyMember("str")>> >>} }

LifeTrees(t) ==
    CASE t = PType -> { ObjTree(<< <<"child", ObjTree(<< <<"x", IntVal(7)>> >>)>>,
                                   <<"n", StrVal("42")>> >>) }
      [] t = ChildType -> { ObjTree(<< <<"x", IntVal(7)>> >>) }
      [] OTHER -> { ObjTree(<<>>) }

NextLife ==
    \/ \E d \in DerivedDecls : DeclareLater(d)
    \/ \E t \in CodecContainers : NonNullOf(t)
    \/ \E t \in CodecContainers : ListOfOf(t)
    \/ \E t \in {ChildType} : Register(global_schema, t)
    \/ \E t \in {ChildType} : Unregister(global_schema, t)
    \/ \E t \in CodecContainers : \E tree \in LifeTrees(t) : Decode(t, tree, NoSelection)

SpecLife == InitCodec /\ [][NextLife]_vars

-----------------------------------------------------------------------------
(* Properties of the registry and of the wrapper cache.                    *)

\* the descriptors of the name table and the <<kind, descriptor>> entries of
\* the kind index of schema s
NameTable(sch) == {sch.all[i][2] : i \in 1..Len(sch.all)}

KindIndex(sch) ==
    UNION {{<<sch.kinds[i][1], sch.kinds[i][2][j][2]>> : j \in 1..Len(sch.kinds[i][2])}
           : i \in 1..Len(sch.kinds)}

Registered(s, t) ==
    /\ ODHas(schemas[s].all, types[t].name)
    /\ ODGet(schemas[s].all, types[t].name) = t

\* C4 (as amended): every call of non_null / list_of for the same type
\* returns the same wrapper, whichever registry the type was looked up in,
\* and a wrapper is cached only in the registry its base type was declared
\* in: the cache of a derived registry holds no wrapper of an inherited type.
C4_WrapperCachedWhereDeclared ==
    /\ \A a, b \in calls : a.mode = b.mode /\ a.t = b.t => a.ret = b.ret
    /\ \A s \in SchemaIds : \A i \in 1..Len(schemas[s].cache) :
          SchemaOf(World, types[schemas[s].cache[i][2]].wbase) = s

\* C4 witness: the wrapper of one type was asked for through two registries
C4_Witness ==
    \E a, b \in calls : a.mode = b.mode /\ a.t = b.t /\ a.s # b.s

\* C4 (as claimed): the same registry gives the identical wrapper, a derived
\* registry gives a distinct one
C4_DistinctThroughDerivedRegistry ==
    \A a, b \in calls : a.mode = b.mode /\ a.t = b.t => (a.s = b.s <=> a.ret = b.ret)

\* C5: a registry built from a base starts with exactly the base's name
\* table and kind index and leaves the existing registries alone; afterwards
\* a register or unregister on one registry, by hand or by a class
\* statement, leaves the name table and kind index of every other registry
\* unchanged.
C5_SnapshotCopy ==
    [][ /\ \A base \in {0} \cup SchemaIds : NewSchema(base) =>
              LET b == IF base = 0 THEN global_schema ELSE base
              IN /\ schemas'[Len(schemas) + 1].all = schemas[b].all
                 /\ schemas'[Len(schemas) + 1].kinds = schemas[b].kinds
                 /\ \A o \in SchemaIds : schemas'[o] = schemas[o]
        /\ \A s \in SchemaIds, t \in UserClassIds :
              Register(s, t) \/ Unregister(s, t) =>
                 \A o \in SchemaIds \ {s} :
                    /\ schemas'[o].all = schemas[o].all
                    /\ schemas'[o].kinds = schemas[o].kinds
        /\ \A d \in RegistryDecls : Declare(d) =>
              \A o \in SchemaIds \ {global_schema} :
                 /\ schemas'[o].all = schemas[o].all
                 /\ schemas'[o].kinds = schemas[o].kinds ]_vars

\* C5 witness: a derived registry and its base have diverged
C5_Witness ==
    \E s \in SchemaIds \ {global_schema} :
       /\ NameTable(schemas[s]) # NameTable(schemas[global_schema])
       /\ KindIndex(schemas[s]) # KindIndex(schemas[global_schema])

\* C6: register fails with ValueError whenever the registry already holds a
\* descriptor of that name, a failed register changes nothing, and no
\* registry ever lists two descriptors of one name.
C6_DuplicateNameRejected ==
    /\ [][ \A s \in SchemaIds, t \in UserClassIds : Register(s, t) =>
              /\ ODHas(schemas[s].all, types[t].name) => last'.exc = "ValueError"
              /\ last'.exc # "" => schemas' = schemas ]_vars
    /\ [](\A s \in SchemaIds :
            \A a, b \in NameTable(schemas[s]) \cup {e[2] : e \in KindIndex(schemas[s])} :
               types[a].name = types[b].name => a = b)

\* C7: unregister of a registered descriptor removes exactly that descriptor
\* from the name table and from the kind index; unregister of a descriptor
\* that is not registered fails with KeyError and changes nothing.
C7_UnregisterAllOrNothing ==
    [][ \A s \in SchemaIds, t \in UserClassIds : Unregister(s, t) =>
           IF Registered(s, t)
           THEN /\ last'.exc = ""
                /\ NameTable(schemas'[s]) = NameTable(schemas[s]) \ {t}
                /\ KindIndex(schemas'[s]) = {e \in KindIndex(schemas[s]) : e[2] # t}
           ELSE /\ last'.exc = "KeyError"
                /\ schemas' = schemas ]_vars

-----------------------------------------------------------------------------
(* Properties of the container builder.                                    *)

\* the world an action leaves
WorldNext ==
    [types |-> types', fieldObjs |-> fieldObjs', schemas |-> schemas',
     insts |-> insts', dicts |-> dicts']

\* acc followed by the names not yet in it, each once, in the order met
RECURSIVE FirstSeen(_, _)
FirstSeen(names, acc) ==
    IF names = <<>> THEN acc
    ELSE FirstSeen(Tail(names),
                   IF names[1] \in Range(acc) THEN acc ELSE Append(acc, names[1]))

RECURSIVE Concat(_)
Concat(ss) == IF ss = <<>> THEN <<>> ELSE ss[1] \o Concat(Tail(ss))

\* the names of the bases' field tables, in base order
InheritedNames(d) ==
    FirstSeen(Concat([i \in 1..Len(d.bases) |-> ODKeys(types[d.bases[i]].fields)]), <<>>)

\* the inherited names, then the names the body declares, in the order
\* the body declares them
ExpectedFieldNames(d) ==
    FirstSeen([i \in 1..Len(d.body) |-> d.body[i][1]], InheritedNames(d))

ExpectedInterfaces(d) ==
    FirstSeen(Concat([i \in 1..Len(d.bases) |->
                 (IF KindOf(World, d.bases[i]) = "interface" /\ d.bases[i] # Interface
                  THEN <<d.bases[i]>> ELSE <<>>)
                 \o SelectSeq(types[d.bases[i]].interfaces, LAMBDA x : x # Interface)]),
              <<>>)

-----------------------------------------------------------------------------
(* Properties of the instance codec.                                       *)

\* the wire names of the fields a decode selects: those of the selection
\* list, or those of the class when there is none
SelectedWires(t, sel) ==
    IF sel.given
    THEN {fieldObjs[sel.items[k].field].graphql_name : k \in 1..Len(sel.items)}
    ELSE {fieldObjs[types[t].fields[k][2]].graphql_name : k \in 1..Len(types[t].fields)}

\* a JSON object restricted to a set of keys
Restrict(tree, keys) == ObjTree(SelectSeq(tree[2], LAMBDA e : e[1] \in keys))

Backing(w, i) == Canon(w, w.insts[i].json)[2]

-----------------------------------------------------------------------------
(* Properties of unresolvable members.                                     *)

\* the names of the members of a body that are neither type, Field nor
\* mapped identifier
OtherNames(d) == {d.body[k][1] : k \in {j \in 1..Len(d.body) : d.body[j][2] = OtherMember}}

\* the body calls Field on a value that is no type
BadFieldCall(d) ==
    \E k \in 1..Len(d.body) : d.body[k][2].m = "Field" /\ ensure(World, d.body[k][2]).exc # ""

-----------------------------------------------------------------------------
(* Properties of a declared container over its life.                       *)

\* what a container descriptor is made of: kind, field table, interfaces
\* and, for each field of the table, attribute name, wire name and owner
Descriptor(w, t) ==
    [kind |-> KindOf(w, t),
     fields |-> w.types[t].fields,
     interfaces |-> w.types[t].interfaces,
     items |-> [k \in 1..Len(w.types[t].fields) |->
                  [name |-> w.fieldObjs[w.types[t].fields[k][2]].name,
                   graphql_name |-> w.fieldObjs[w.types[t].fields[k][2]].graphql_name,
                   container |-> w.fieldObjs[w.types[t].fields[k][2]].container]]]

-----------------------------------------------------------------------------
(* Properties of list_of.                                                  *)

\* a decoded value as a caller sees it: an instance by its class, selection
\* list, cache, attributes and backing JSON, any other value as it is
Seen(w, v) ==
    IF v[1] = "inst"
    THEN <<"inst", [cls |-> w.insts[v[2]].cls, sel |-> w.insts[v[2]].sel,
                    cache |-> w.insts[v[2]].cache, attrs |-> w.insts[v[2]].attrs,
                    json |-> Canon(w, w.insts[v[2]].json)]>>
    ELSE v

\* what decoding the JSON value with class t and the selection list gives:
\* the exception, or the value seen
DecodeOf(t, tree, sel) ==
    The({ The({ IF r.exc # "" THEN <<"raise", r.exc>> ELSE Seen(r.w, r.ret)
                : r \in {Construct(a.w, t, a.ret, sel)} })
          : a \in {Alloc(World, tree)} })

-----------------------------------------------------------------------------
(* Properties of decoding null.                                            *)

-----------------------------------------------------------------------------
(* Properties of Arg.                                                      *)

\* the decoder of the type of the argument accepts the value
Accepts(typ, default) ==
    \E a \in {Alloc(World, default)} :
       Construct(a.w, ensure(World, typ).ret, a.ret, NoSelection).exc = ""

\* C15: Arg(typ, default = d) with d not None returns an Arg if and only if
\* the decoder of the argument type accepts d, whatever d decodes to, and
\* raises at once when it does not.
C15_DefaultAcceptedIffDecodes ==
    [][\A typ \in ArgTypes, g \in {"", "ident"}, default \in ArgDefaults \ {None},
          debug \in BOOLEAN :
          NewArg(typ, g, default, debug) /\ ensure(World, typ).exc = "" =>
             (last'.exc = "" <=> Accepts(typ, default))
      ]_vars

-----------------------------------------------------------------------------
(* Properties of the kind index.                                           *)

-----------------------------------------------------------------------------
(* Properties of wrappers of a re-declared type.                           *)

\* the outcome of typ(json_data) in the world an action leaves
Outcome(t, v) ==
    The({ IF r.exc # "" THEN <<"raise", r.exc>> ELSE r.ret
          : r \in {Construct(WorldNext, t, v, NoSelection)} })

\* C17: the wrapper non_null(T) or list_of(T) returns has T as its base, and
\* it decodes as T decodes: a non_null wrapper gives for a value what T
\* gives, a list_of wrapper gives for a one-element array the list of what
\* T gives for the element (and raises when T raises).
C17_WrapperOfTheTypeGiven ==
    [][\A t \in Foos :
          (NonNullOf(t) \/ ListOfOf(t)) /\ last'.exc = "" =>
             /\ types'[last'.ret[2]].wbase = t
             /\ \A v \in {StrVal("A"), StrVal("Z")} :
                   IF types'[last'.ret[2]].wrap = "non_null"
                   THEN Outcome(last'.ret[2], v) = Outcome(t, v)
                   ELSE Outcome(last'.ret[2], <<"list", <<v>>>>)
                          = IF Outcome(t, v)[1] = "raise" THEN Outcome(t, v)
                            ELSE <<"list", <<Outcome(t, v)>>>>
      ]_vars

-----------------------------------------------------------------------------
(* Properties of nested instances.                                         *)

\* instance n is held in the materialised attribute `name`, a field of
\* container type, of instance p
Holds(p, name, n) ==
    /\ insts[p].done
    /\ ODHas(insts[p].cache, name)
    /\ types[FieldType(World, ODGet(insts[p].cache, name))].meta = "container"
    /\ ODHas(insts[p].attrs, name)
    /\ ODGet(insts[p].attrs, name) = InstRef(n)

\* every attribute that was written on instance n is materialised, or is
\* not the name of a field of its class
OnlyMaterialised(n) ==
    \A k \in 1..Len(insts[n].attrs) :
       \/ ODHas(insts[n].cache, insts[n].attrs[k][1])
       \/ ~ODHas(types[insts[n].cls].fields, insts[n].attrs[k][1])

====
